---- MODULE Spec2Model ----
(***************************************************************************)
(* Model of the three instructional scripts of python2igsce:               *)
(*   test_calculator.py  (calculator read loop),                           *)
(*   test_if_else.py     (banded classifier, even/odd),                    *)
(*   examples/simple.py  (age check, counting loops).                      *)
(* One run executes one script; `script` says which.  Console input is     *)
(* chosen nondeterministically from bounded sets of lines, a line being a  *)
(* sequence of characters; end of input is a separate outcome of a read.   *)
(***************************************************************************)
EXTENDS Integers, Sequences, FiniteSets, TLC

VARIABLES script, pc, stdout, line, error,
          num1, num2, result, choice, iter, addCalls,
          x, y, n, rectangle_area, age, i, numbers, total, num, count, it,
          retX, retY, retN

vars == <<script, pc, stdout, line, error, num1, num2, result, choice, iter, addCalls,
          x, y, n, rectangle_area, age, i, numbers, total, num, count, it,
          retX, retY, retN>>

\* names of test_calculator.py (`result` is also a name of simple.py)
calcVars == <<num1, num2, choice, iter, addCalls>>
\* names of examples/simple.py (`x` and `y` are also the arguments given to
\* test_if_else); `it` is the position of the for loop's iterator, and the
\* index of the next module-level statement of test_if_else.py
simpleVars == <<rectangle_area, age, i, numbers, total, num, count, it>>
\* the parameter n of simple_if_else and the values the calls of
\* test_if_else.py return
fnVars == <<n, retX, retY, retN>>

(* ------------------------------ bounds --------------------------------- *)
\* most characters typed after the optional sign at a number prompt of the
\* calculator
MaxDigits == 1
\* longest line typed at the age prompt
MaxAgeLen == 2
\* longest line typed at the "Continue? (y/n): " prompt
MaxChoiceLen == 2
\* most iterations of the calculator's `while True` in a run
MaxIter == 2
\* arguments of the classifier functions range over -MaxArg..MaxArg
MaxArg == 12

\* characters a user may type after the sign at the calculator's number prompts
NumChars == {"0", "1", "a"}
\* characters a user may type at the continue prompt
ChoiceChars == {"y", "Y", "n"}
\* characters a user may type at the age prompt
AgeChars == {"-", "0", "1", "7", "8", "a"}

RECURSIVE SeqsUpTo(_, _)
SeqsUpTo(S, len) ==
    IF len = 0 THEN {<<>>}
    ELSE LET shorter == SeqsUpTo(S, len - 1)
         IN  shorter \cup {Append(s, c) : s \in shorter, c \in S}

NumLines ==
    LET bodies == SeqsUpTo(NumChars, MaxDigits)
    IN  bodies \cup {<<"-">> \o body : body \in bodies}
ChoiceLines == SeqsUpTo(ChoiceChars, MaxChoiceLen)
AgeLines == SeqsUpTo(AgeChars, MaxAgeLen)

\* input(): a line of text, or end of input (EOFError)
InputResults(lines) ==
    {[eof |-> FALSE, text |-> l] : l \in lines} \cup {[eof |-> TRUE]}

\* value of a name that has not been assigned yet (every value a name can
\* hold is a record, so a bound and an unbound name compare unequal)
Unbound == [unbound |-> TRUE]

(* --------------------------- Python builtins --------------------------- *)
Digits == <<"0", "1", "2", "3", "4", "5", "6", "7", "8", "9">>

IsDigit(c) == \E d \in 1..10 : Digits[d] = c

DigitVal(c) == (CHOOSE d \in 1..10 : Digits[d] = c) - 1

\* value of a non-empty sequence of decimal digits
RECURSIVE DigitsVal(_)
DigitsVal(s) ==
    IF s = <<>> THEN 0
    ELSE 10 * DigitsVal(SubSeq(s, 1, Len(s) - 1)) + DigitVal(s[Len(s)])

\* an optional "-" followed by one or more digits
IsDecimal(s) ==
    LET body == IF s # <<>> /\ s[1] = "-" THEN Tail(s) ELSE s
    IN  body # <<>> /\ \A k \in 1..Len(body) : IsDigit(body[k])

\* an empty line is read as 0.0 instead of raising ValueError
ParseFloat_EmptyIsZero(s) ==
    IF s = <<>> THEN [ok |-> TRUE, val |-> [neg |-> FALSE, mag |-> 0]]
    ELSE IF IsDecimal(s)
    THEN [ok |-> TRUE,
          val |-> IF s[1] = "-" THEN [neg |-> TRUE, mag |-> DigitsVal(Tail(s))]
                  ELSE [neg |-> FALSE, mag |-> DigitsVal(s)]]
    ELSE [ok |-> FALSE]

\* float(line): a float is [neg, mag], so that -0.0 and 0.0 are told apart
ParseFloat(s) ==
    IF IsDecimal(s)
    THEN [ok |-> TRUE,
          val |-> IF s[1] = "-" THEN [neg |-> TRUE, mag |-> DigitsVal(Tail(s))]
                  ELSE [neg |-> FALSE, mag |-> DigitsVal(s)]]
    ELSE [ok |-> FALSE]

\* int(line)
ParseInt(s) ==
    IF IsDecimal(s)
    THEN [ok |-> TRUE,
          val |-> IF s[1] = "-" THEN 0 - DigitsVal(Tail(s)) ELSE DigitsVal(s)]
    ELSE [ok |-> FALSE]

\* the real number a float stands for
FloatValue(f) == IF f.neg THEN 0 - f.mag ELSE f.mag

\* <= in place of <: zero is rejected too
FloatLt_OrEqual(f, v) == FloatValue(f) <= v

\* float < int
FloatLt(f, v) == FloatValue(f) < v

\* float + float, IEEE 754 sign of a zero sum
FloatAdd(a, b) ==
    LET s == FloatValue(a) + FloatValue(b)
    IN  IF s = 0 THEN [neg |-> a.neg /\ b.neg, mag |-> 0]
        ELSE IF s < 0 THEN [neg |-> TRUE, mag |-> 0 - s]
        ELSE [neg |-> FALSE, mag |-> s]

RECURSIVE NatStr(_)
NatStr(v) ==
    IF v < 10 THEN Digits[v + 1]
    ELSE NatStr(v \div 10) \o Digits[(v % 10) + 1]

\* str(int)
IntStr(v) == IF v < 0 THEN "-" \o NatStr(0 - v) ELSE NatStr(v)

\* str(float) of an integral float
FloatStr(f) == (IF f.neg THEN "-" ELSE "") \o NatStr(f.mag) \o ".0"

LowerChar(c) == IF c = "Y" THEN "y" ELSE IF c = "N" THEN "n" ELSE c

\* str.lower()
Lower(s) == [k \in 1..Len(s) |-> LowerChar(s[k])]

PrintLine(text) == [kind |-> "print", text |-> text]
PromptLine(text) == [kind |-> "prompt", text |-> text]

\* the value None, an int, a str and a list, as Python objects
None == [type |-> "NoneType"]
PyInt(v) == [type |-> "int", val |-> v]
Str(t) == [type |-> "str", text |-> t]
PyList(q) == [type |-> "list", items |-> q]

\* str(object), as print() applies it
PyStr(v) == IF v.type = "NoneType" THEN "None" ELSE IntStr(v.val)

\* the lines written by print(), prompts left out
Printed == SelectSeq(stdout, LAMBDA e : e.kind = "print")

(* --------------------------- test_calculator.py ------------------------ *)
\* a - b in place of a + b
add_Subtract(a, b) == FloatAdd(a, [neg |-> ~b.neg, mag |-> b.mag])

add(a, b) == FloatAdd(a, b)

\* the guard of the rejection branch
IsRejected(a, b) == FloatLt(a, 0) \/ FloatLt(b, 0)

\* the comparison without lower(): "Y" exits
IsExit_CaseSensitive(c) == c # <<"y">>

\* only an explicit "n" exits: an empty answer continues
IsExit_OnlyN(c) == Lower(c) = <<"n">>

\* the guard of the break
IsExit(c) == Lower(c) # <<"y">>

CalcStart ==
    /\ script = "calculator" /\ pc = "main"
    /\ stdout' = Append(stdout, PrintLine("Simple Calculator"))
    /\ pc' = "read1"
    /\ UNCHANGED <<script, line, error, result, x, y, calcVars, simpleVars, fnVars>>

ReadFirst ==
    /\ script = "calculator" /\ pc = "read1"
    /\ iter < MaxIter
    /\ iter' = iter + 1
    /\ stdout' = Append(stdout, PromptLine("Enter first number: "))
    /\ \E r \in InputResults(NumLines) :
         /\ line' = r
         /\ IF r.eof
            THEN num1' = num1 /\ pc' = "aborted" /\ error' = "EOFError"
            ELSE LET p == ParseFloat(r.text)
                 IN  IF p.ok
                     THEN num1' = p.val /\ pc' = "read2" /\ error' = error
                     ELSE num1' = num1 /\ pc' = "aborted" /\ error' = "ValueError"
    /\ UNCHANGED <<script, num2, result, choice, addCalls, x, y, simpleVars, fnVars>>

ReadSecond ==
    /\ script = "calculator" /\ pc = "read2"
    /\ stdout' = Append(stdout, PromptLine("Enter second number: "))
    /\ \E r \in InputResults(NumLines) :
         /\ line' = r
         /\ IF r.eof
            THEN num2' = num2 /\ pc' = "aborted" /\ error' = "EOFError"
            ELSE LET p == ParseFloat(r.text)
                 IN  IF p.ok
                     THEN num2' = p.val /\ pc' = "check" /\ error' = error
                     ELSE num2' = num2 /\ pc' = "aborted" /\ error' = "ValueError"
    /\ UNCHANGED <<script, num1, result, choice, iter, addCalls, x, y, simpleVars, fnVars>>

CheckNegative ==
    /\ script = "calculator" /\ pc = "check"
    /\ IF IsRejected(num1, num2)
       THEN /\ stdout' = Append(stdout, PrintLine("Negative numbers not allowed"))
            /\ pc' = "read1"
       ELSE /\ stdout' = stdout
            /\ pc' = "compute"
    /\ UNCHANGED <<script, line, error, result, x, y, calcVars, simpleVars, fnVars>>

Compute ==
    /\ script = "calculator" /\ pc = "compute"
    /\ result' = add(num1, num2)
    /\ addCalls' = addCalls + 1
    /\ stdout' = Append(stdout, PrintLine("Result: " \o FloatStr(result')))
    /\ pc' = "ask"
    /\ UNCHANGED <<script, line, error, num1, num2, choice, iter, x, y, simpleVars, fnVars>>

ReadChoice ==
    /\ script = "calculator" /\ pc = "ask"
    /\ stdout' = Append(stdout, PromptLine("Continue? (y/n): "))
    /\ \E r \in InputResults(ChoiceLines) :
         /\ line' = r
         /\ IF r.eof
            THEN choice' = choice /\ pc' = "aborted" /\ error' = "EOFError"
            ELSE choice' = Str(r.text) /\ pc' = "decide" /\ error' = error
    /\ UNCHANGED <<script, num1, num2, result, iter, addCalls, x, y, simpleVars, fnVars>>

CheckChoice ==
    /\ script = "calculator" /\ pc = "decide"
    /\ pc' = IF IsExit(choice.text) THEN "goodbye" ELSE "read1"
    /\ UNCHANGED <<script, stdout, line, error, result, x, y, calcVars, simpleVars, fnVars>>

Goodbye ==
    /\ script = "calculator" /\ pc = "goodbye"
    /\ stdout' = Append(stdout, PrintLine("Goodbye!"))
    /\ pc' = "done"
    /\ UNCHANGED <<script, line, error, result, x, y, calcVars, simpleVars, fnVars>>

Calculator ==
    \/ CalcStart \/ ReadFirst \/ ReadSecond \/ CheckNegative
    \/ Compute \/ ReadChoice \/ CheckChoice \/ Goodbye

(* ----------------------------- test_if_else.py ------------------------ *)
\* >= in place of > in the first comparison: 10 is a large number
test_if_else_Inclusive(a) ==
    IF a >= 10 THEN [msg |-> "Large number", result |-> a * 2]
    ELSE IF a > 5 THEN [msg |-> "Medium number", result |-> a + 5]
    ELSE IF a > 0 THEN [msg |-> "Small positive number", result |-> a + 1]
    ELSE [msg |-> "Zero or negative", result |-> 0]

\* the medium band subtracts 5 instead of adding it
test_if_else_MediumMinus(a) ==
    IF a > 10 THEN [msg |-> "Large number", result |-> a * 2]
    ELSE IF a > 5 THEN [msg |-> "Medium number", result |-> a - 5]
    ELSE IF a > 0 THEN [msg |-> "Small positive number", result |-> a + 1]
    ELSE [msg |-> "Zero or negative", result |-> 0]

\* test_if_else(x): the line it prints and the value it returns
test_if_else(a) ==
    IF a > 10 THEN [msg |-> "Large number", result |-> a * 2]
    ELSE IF a > 5 THEN [msg |-> "Medium number", result |-> a + 5]
    ELSE IF a > 0 THEN [msg |-> "Small positive number", result |-> a + 1]
    ELSE [msg |-> "Zero or negative", result |-> 0]

\* the remainder truncated toward zero, tested against 1: -3 is "Even"
simple_if_else_Truncated(a) ==
    [msg |-> IF a > 0 /\ a % 2 = 1 THEN "Odd" ELSE "Even", result |-> None]

\* simple_if_else(n): the line it prints; the function has no return statement
simple_if_else(a) ==
    [msg |-> IF a % 2 = 0 THEN "Even" ELSE "Odd", result |-> None]

\* the module-level statements, lines 23..28: the function called and its argument
IfElseCalls ==
    <<[fn |-> "test_if_else", arg |-> 15], [fn |-> "test_if_else", arg |-> 7],
      [fn |-> "test_if_else", arg |-> 3], [fn |-> "test_if_else", arg |-> -1],
      [fn |-> "simple_if_else", arg |-> 4], [fn |-> "simple_if_else", arg |-> 5]>>

\* print(test_if_else(k)), lines 23..26
PrintTestIfElse ==
    /\ script = "if_else" /\ pc = "main"
    /\ it <= Len(IfElseCalls) /\ IfElseCalls[it].fn = "test_if_else"
    /\ LET r == test_if_else(IfElseCalls[it].arg)
       IN  /\ x' = PyInt(IfElseCalls[it].arg)
           /\ retX' = PyInt(r.result)
           /\ stdout' = stdout \o <<PrintLine(r.msg), PrintLine(PyStr(PyInt(r.result)))>>
    /\ it' = it + 1
    /\ UNCHANGED <<script, pc, line, error, result, y, calcVars, rectangle_area, age, i,
                   numbers, total, num, count, n, retY, retN>>

\* print(simple_if_else(k)), lines 27..28
PrintSimpleIfElse ==
    /\ script = "if_else" /\ pc = "main"
    /\ it <= Len(IfElseCalls) /\ IfElseCalls[it].fn = "simple_if_else"
    /\ LET r == simple_if_else(IfElseCalls[it].arg)
       IN  /\ n' = PyInt(IfElseCalls[it].arg)
           /\ retN' = r.result
           /\ stdout' = stdout \o <<PrintLine(r.msg), PrintLine(PyStr(r.result))>>
    /\ it' = it + 1
    /\ UNCHANGED <<script, pc, line, error, result, x, y, calcVars, rectangle_area, age, i,
                   numbers, total, num, count, retX, retY>>

IfElseEnd ==
    /\ script = "if_else" /\ pc = "main"
    /\ it > Len(IfElseCalls)
    /\ pc' = "done"
    /\ UNCHANGED <<script, stdout, line, error, result, x, y, calcVars, simpleVars, fnVars>>

\* the two functions on arbitrary integer arguments: test_if_else(a), then
\* test_if_else(b), then simple_if_else(n)
Args == (0 - MaxArg)..MaxArg

CallTestIfElseX ==
    /\ script = "functions" /\ pc = "main"
    /\ \E a \in Args :
         LET r == test_if_else(a)
         IN  /\ x' = PyInt(a)
             /\ retX' = PyInt(r.result)
             /\ stdout' = Append(stdout, PrintLine(r.msg))
    /\ pc' = "second"
    /\ UNCHANGED <<script, line, error, result, y, calcVars, simpleVars, n, retY, retN>>

CallTestIfElseY ==
    /\ script = "functions" /\ pc = "second"
    /\ \E b \in Args :
         LET r == test_if_else(b)
         IN  /\ y' = PyInt(b)
             /\ retY' = PyInt(r.result)
             /\ stdout' = Append(stdout, PrintLine(r.msg))
    /\ pc' = "third"
    /\ UNCHANGED <<script, line, error, result, x, calcVars, simpleVars, n, retX, retN>>

CallSimpleIfElse ==
    /\ script = "functions" /\ pc = "third"
    /\ \E c \in Args :
         LET r == simple_if_else(c)
         IN  /\ n' = PyInt(c)
             /\ retN' = r.result
             /\ stdout' = stdout \o <<PrintLine(r.msg), PrintLine(PyStr(r.result))>>
    /\ pc' = "done"
    /\ UNCHANGED <<script, line, error, result, x, y, calcVars, simpleVars, retX, retY>>

IfElse ==
    \/ PrintTestIfElse \/ PrintSimpleIfElse \/ IfElseEnd
    \/ CallTestIfElseX \/ CallTestIfElseY \/ CallSimpleIfElse

(* ----------------------------- examples/simple.py --------------------- *)
calculate_area(length, width) == length * width

\* > in place of >=: 18 is a minor
IsAdult_Strict(a) == a > 18

\* the condition of line 22
IsAdult(a) == a >= 18

\* range(1, 6) and the list literal, as the sequences the for loops walk
Range1To6 == [k \in 1..5 |-> k]
NumbersList == <<1, 2, 3, 4, 5>>
\* the bound of `while count < 3`
CountBound == 3

\* <= in place of <: "Count: 3" is printed
WhileCond_Inclusive(c) == c <= CountBound

\* the condition of line 43
WhileCond(c) == c < CountBound

\* lines 4..17: the sum and the rectangle area
SimpleIntro ==
    /\ script = "simple" /\ pc = "main"
    /\ x' = PyInt(5) /\ y' = PyInt(10)
    /\ result' = PyInt(x'.val + y'.val)
    /\ rectangle_area' = PyInt(calculate_area(8, 6))
    /\ stdout' = stdout \o <<PrintLine("The sum is: " \o PyStr(result')),
                             PrintLine("Rectangle area: " \o PyStr(rectangle_area'))>>
    /\ pc' = "read_age"
    /\ UNCHANGED <<script, line, error, calcVars, age, i, numbers, total, num, count, it, fnVars>>

\* line 20: age = int(input("Enter your age: "))
ReadAge ==
    /\ script = "simple" /\ pc = "read_age"
    /\ stdout' = Append(stdout, PromptLine("Enter your age: "))
    /\ \E r \in InputResults(AgeLines) :
         /\ line' = r
         /\ IF r.eof
            THEN age' = age /\ pc' = "aborted" /\ error' = "EOFError"
            ELSE LET p == ParseInt(r.text)
                 IN  IF p.ok
                     THEN age' = PyInt(p.val) /\ pc' = "check_age" /\ error' = error
                     ELSE age' = age /\ pc' = "aborted" /\ error' = "ValueError"
    /\ UNCHANGED <<script, result, x, y, calcVars, rectangle_area, i, numbers, total,
                   num, count, it, fnVars>>

\* lines 22..25
CheckAge ==
    /\ script = "simple" /\ pc = "check_age"
    /\ stdout' = Append(stdout, PrintLine(IF IsAdult(age.val) THEN "You are an adult"
                                          ELSE "You are a minor"))
    /\ pc' = "for_header"
    /\ UNCHANGED <<script, line, error, result, x, y, calcVars, simpleVars, fnVars>>

\* line 28, and the iterator of range(1, 6) is created
ForHeader ==
    /\ script = "simple" /\ pc = "for_header"
    /\ stdout' = Append(stdout, PrintLine("Counting from 1 to 5:"))
    /\ it' = 1
    /\ pc' = "for_range"
    /\ UNCHANGED <<script, line, error, result, x, y, calcVars, rectangle_area, age, i,
                   numbers, total, num, count, fnVars>>

\* lines 29..30: one iteration, or the end of the loop and lines 33..34
ForRange ==
    /\ script = "simple" /\ pc = "for_range"
    /\ IF it <= Len(Range1To6)
       THEN /\ i' = PyInt(Range1To6[it])
            /\ stdout' = Append(stdout, PrintLine("Number: " \o PyStr(i')))
            /\ it' = it + 1
            /\ UNCHANGED <<pc, numbers, total>>
       ELSE /\ numbers' = PyList(NumbersList)
            /\ total' = PyInt(0)
            /\ it' = 1
            /\ pc' = "for_numbers"
            /\ UNCHANGED <<stdout, i>>
    /\ UNCHANGED <<script, line, error, result, x, y, calcVars, rectangle_area, age,
                   num, count, fnVars>>

\* lines 36..39: one iteration, or the end of the loop, the total and line 42
ForNumbers ==
    /\ script = "simple" /\ pc = "for_numbers"
    /\ IF it <= Len(numbers.items)
       THEN /\ num' = PyInt(numbers.items[it])
            /\ total' = PyInt(total.val + num'.val)
            /\ it' = it + 1
            /\ UNCHANGED <<pc, stdout, count>>
       ELSE /\ stdout' = Append(stdout, PrintLine("Total sum: " \o PyStr(total)))
            /\ count' = PyInt(0)
            /\ pc' = "while"
            /\ UNCHANGED <<num, total, it>>
    /\ UNCHANGED <<script, line, error, result, x, y, calcVars, rectangle_area, age, i,
                   numbers, fnVars>>

\* lines 43..47: one iteration, or the end of the loop and "Done!"
WhileCount ==
    /\ script = "simple" /\ pc = "while"
    /\ IF WhileCond(count.val)
       THEN /\ stdout' = Append(stdout, PrintLine("Count: " \o PyStr(count)))
            /\ count' = PyInt(count.val + 1)
            /\ pc' = pc
       ELSE /\ stdout' = Append(stdout, PrintLine("Done!"))
            /\ count' = count
            /\ pc' = "done"
    /\ UNCHANGED <<script, line, error, result, x, y, calcVars, rectangle_area, age, i,
                   numbers, total, num, it, fnVars>>

Simple ==
    \/ SimpleIntro \/ ReadAge \/ CheckAge \/ ForHeader
    \/ ForRange \/ ForNumbers \/ WhileCount

(* ------------------------------ behaviours ----------------------------- *)
\* the interpreter is about to run the first statement of script s
Start(s) ==
    /\ script = s
    /\ pc = "main"
    /\ stdout = <<>>
    /\ line = Unbound
    /\ error = "none"
    /\ num1 = Unbound /\ num2 = Unbound /\ result = Unbound /\ choice = Unbound
    /\ iter = 0 /\ addCalls = 0
    /\ x = Unbound /\ y = Unbound /\ n = Unbound /\ rectangle_area = Unbound
    /\ age = Unbound /\ i = Unbound /\ numbers = Unbound /\ total = Unbound
    /\ num = Unbound /\ count = Unbound
    /\ it = 1
    /\ retX = Unbound /\ retY = Unbound /\ retN = Unbound

Init == \E s \in {"calculator", "if_else", "functions", "simple"} : Start(s)

Next == Calculator \/ IfElse \/ Simple

\* a run of any one of the scripts
Spec == Init /\ [][Next]_vars

\* a run of test_calculator.py
CalcInit == Start("calculator")
CalcSpec == CalcInit /\ [][Calculator]_vars

\* a run of test_if_else.py, or its two functions called on arbitrary arguments
IfElseInit == Start("if_else") \/ Start("functions")
IfElseSpec == IfElseInit /\ [][IfElse]_vars

\* a run of examples/simple.py
SimpleInit == Start("simple")
SimpleSpec == SimpleInit /\ [][Simple]_vars

\* the interpreter does not stop while the script has a statement to run
SimpleFairSpec == SimpleSpec /\ WF_vars(Simple)

(* ------------------------------ properties ----------------------------- *)
Last(q) == q[Len(q)]

\* how often print() wrote the line t
TimesPrinted(t) == Len(SelectSeq(stdout, LAMBDA e : e = PrintLine(t)))

\* how often input() showed the prompt t
TimesPrompted(t) == Len(SelectSeq(stdout, LAMBDA e : e = PromptLine(t)))

InCalc(label) == script = "calculator" /\ pc = label

\* C1: with both numbers parsed, the pair is rejected iff num1 < 0 or
\* num2 < 0.  A rejection prints "Negative numbers not allowed", calls add
\* not at all, prints no "Result:" line, issues no "Continue? (y/n)" prompt,
\* and the next step is the "Enter first number" prompt again, however many
\* rejections came before; a pair that is not rejected goes on to add.
C1_RejectStep ==
    InCalc("check") =>
        IF FloatValue(num1) < 0 \/ FloatValue(num2) < 0
        THEN /\ stdout' = Append(stdout, PrintLine("Negative numbers not allowed"))
             /\ pc' = "read1"
             /\ addCalls' = addCalls /\ result' = result
             /\ TimesPrompted("Continue? (y/n): ")' = TimesPrompted("Continue? (y/n): ")
        ELSE /\ pc' = "compute"
             /\ stdout' = stdout

C1_AfterReject ==
    \A k \in 1..Len(stdout) :
        stdout[k] = PrintLine("Negative numbers not allowed") =>
            /\ k > 1 /\ stdout[k - 1] = PromptLine("Enter second number: ")
            /\ k < Len(stdout) => stdout[k + 1] = PromptLine("Enter first number: ")
            /\ k = Len(stdout) => pc = "read1"

C1_RejectIffNegative == [][C1_RejectStep]_vars /\ []C1_AfterReject

\* two rejections in a row, nothing computed, the first prompt is next
C1_Witness ==
    /\ InCalc("read1")
    /\ TimesPrinted("Negative numbers not allowed") = 2
    /\ addCalls = 0
    /\ Len(Printed) = 3

\* C2: after a result has been printed, the loop exits to the terminal
\* action iff the answer to "Continue? (y/n)" differs from "y" compared
\* case-insensitively: "y" and "Y" go back to prompting, every other answer
\* exits.
C2_DecideStep ==
    InCalc("decide") =>
        /\ pc' \in {"read1", "goodbye"}
        /\ pc' = "read1" <=> choice.text \in {<<"y">>, <<"Y">>}
        /\ stdout' = stdout

C2_DecideAfterResult ==
    InCalc("decide") =>
        /\ Last(stdout) = PromptLine("Continue? (y/n): ")
        /\ stdout[Len(stdout) - 1] = PrintLine("Result: " \o FloatStr(result))

C2_ExitIffNotY == [][C2_DecideStep]_vars /\ []C2_DecideAfterResult

\* the answer "Y" has sent the loop back to the first prompt
C2_Witness == InCalc("read1") /\ iter = 1 /\ addCalls = 1 /\ choice = Str(<<"Y">>)

\* C3, as claimed: an empty answer to "Continue? (y/n)" continues the loop.
C3_EmptyContinues ==
    [][(InCalc("decide") /\ choice = Str(<<>>)) => pc' = "read1"]_vars

\* C3, amended: an empty answer to "Continue? (y/n)" differs from "y", so
\* the loop exits: the next step is the terminal action, no number is asked
\* for again, and "Goodbye!" is printed.
C3_EmptyStep ==
    /\ (InCalc("decide") /\ choice = Str(<<>>)) => pc' = "goodbye" /\ stdout' = stdout
    /\ (InCalc("goodbye") /\ choice = Str(<<>>)) =>
           pc' = "done" /\ stdout' = Append(stdout, PrintLine("Goodbye!"))

C3_EmptyExits == [][C3_EmptyStep]_vars

\* the run has ended on an empty answer
C3_Witness ==
    /\ InCalc("done") /\ choice = Str(<<>>)
    /\ Last(stdout) = PrintLine("Goodbye!")
    /\ stdout[Len(stdout) - 1] = PromptLine("Continue? (y/n): ")

NumberPrompts ==
    {PromptLine("Enter first number: "), PromptLine("Enter second number: ")}

\* the run has used up its MaxIter iterations
IterCapReached == InCalc("read1") /\ iter = MaxIter

\* C4, as claimed: an unparsable first or second number is the only way a
\* run ends without the terminal action, so a run that ended so ended at a
\* read of one of the two numbers.
C4_AbortOnlyAtNumbers ==
    InCalc("aborted") => Last(stdout) \in NumberPrompts

\* C4, amended: the run aborts at a read when the line read for the first or
\* second number is not a number, or when input ends at any of the three
\* prompts (the "Continue? (y/n)" prompt included).  After the abort nothing
\* is printed and nothing re-prompts, "Goodbye!" is never printed, and these
\* are the only ways console input makes a run end without reaching the
\* terminal action.
C4_Aborted ==
    InCalc("aborted") =>
        /\ Last(stdout).kind = "prompt"
        /\ error \in {"ValueError", "EOFError"}
        /\ error = "EOFError" <=> line.eof
        /\ error = "ValueError" =>
               ~IsDecimal(line.text) /\ Last(stdout) \in NumberPrompts
        /\ TimesPrinted("Goodbye!") = 0

C4_ReadStep ==
    /\ (InCalc("read1") \/ InCalc("read2")) =>
           (pc' = "aborted" <=> (line'.eof \/ ~IsDecimal(line'.text)))
    /\ InCalc("ask") => (pc' = "aborted" <=> line'.eof)
    /\ InCalc("aborted") => UNCHANGED vars

C4_Stopped ==
    (script = "calculator" /\ ~ENABLED Calculator) =>
        (pc \in {"done", "aborted"} \/ IterCapReached)

C4_AbortAtReads == []C4_Aborted /\ [][C4_ReadStep]_vars /\ []C4_Stopped

\* input ended at the "Continue? (y/n)" prompt of the second iteration
C4_Witness ==
    /\ InCalc("aborted") /\ error = "EOFError" /\ iter = 2
    /\ Last(stdout) = PromptLine("Continue? (y/n): ")

\* C5: "Goodbye!" is printed at most once, is the last output of the run and
\* comes directly after a "Continue? (y/n)" answer that exits, never after a
\* rejection.  A first pair of non-negative numbers a, b followed by an
\* answer other than "y"/"Y" runs the loop body exactly once and prints
\* "Simple Calculator", "Result: " with a + b, "Goodbye!".
C5_Goodbye ==
    script = "calculator" =>
        /\ TimesPrinted("Goodbye!") <= 1
        /\ pc = "done" <=> TimesPrinted("Goodbye!") = 1
        /\ pc = "done" =>
               /\ Last(stdout) = PrintLine("Goodbye!")
               /\ stdout[Len(stdout) - 1] = PromptLine("Continue? (y/n): ")
               /\ choice.text \notin {<<"y">>, <<"Y">>}
        /\ (pc = "done" /\ iter = 1) =>
               /\ FloatValue(result) = FloatValue(num1) + FloatValue(num2)
               /\ Printed = <<PrintLine("Simple Calculator"),
                              PrintLine("Result: " \o FloatStr(result)),
                              PrintLine("Goodbye!")>>

C5_OnceStep ==
    (InCalc("decide") /\ iter = 1 /\ choice.text \notin {<<"y">>, <<"Y">>}) =>
        pc' = "goodbye" /\ iter' = 1

C5_GoodbyeOnceAndLast == []C5_Goodbye /\ [][C5_OnceStep]_vars

\* 1 and 1, then "n": one iteration, "Result: 2.0", "Goodbye!"
C5_Witness ==
    /\ InCalc("done") /\ iter = 1 /\ choice = Str(<<"n">>)
    /\ num1 = [neg |-> FALSE, mag |-> 1] /\ num2 = [neg |-> FALSE, mag |-> 1]
    /\ Printed[2] = PrintLine("Result: 2.0")

\* the band of an argument, by its range
Band(a) ==
    IF a >= 11 THEN "Large number"
    ELSE IF a \in 6..10 THEN "Medium number"
    ELSE IF a \in 1..5 THEN "Small positive number"
    ELSE "Zero or negative"

\* C6: test_if_else(x) prints exactly one band message and returns the value
\* of that band: x > 10 "Large number" and 2*x, else x > 5 "Medium number"
\* and x + 5, else x > 0 "Small positive number" and x + 1, else "Zero or
\* negative" and 0; test_if_else(10) = 15, test_if_else(5) = 6,
\* test_if_else(0) = 0.  The script prints the four results 30, 12, 4, 0.
C6_Bands ==
    /\ (script = "functions" /\ pc = "second") =>
           /\ stdout = <<PrintLine(Band(x.val))>>
           /\ Band(x.val) = "Large number" => retX = PyInt(x.val + x.val)
           /\ Band(x.val) = "Medium number" => retX = PyInt(x.val + 5)
           /\ Band(x.val) = "Small positive number" => retX = PyInt(x.val + 1)
           /\ Band(x.val) = "Zero or negative" => retX = PyInt(0)
           /\ x.val = 10 => retX.val = 15
           /\ x.val = 5 => retX.val = 6
           /\ x.val = 0 => retX.val = 0
    /\ (script = "if_else" /\ it > 4) =>
           SubSeq(stdout, 1, 8) =
               <<PrintLine("Large number"), PrintLine("30"),
                 PrintLine("Medium number"), PrintLine("12"),
                 PrintLine("Small positive number"), PrintLine("4"),
                 PrintLine("Zero or negative"), PrintLine("0")>>

\* the boundary 10 fell into the medium band
C6_Witness ==
    /\ script = "functions" /\ pc = "second" /\ x = PyInt(10)
    /\ retX = PyInt(15) /\ stdout = <<PrintLine("Medium number")>>

\* C7: for every integer age read, exactly one of the two messages is
\* printed, "You are an adult" iff age >= 18 and "You are a minor" iff
\* age < 18, and the script goes on to the counting loop.
C7_AgeMessage ==
    (script = "simple" /\ pc \in {"for_header", "for_range", "for_numbers", "while", "done"}) =>
        /\ TimesPrinted("You are an adult") + TimesPrinted("You are a minor") = 1
        /\ TimesPrinted("You are an adult") = 1 <=> age.val > 17
        /\ TimesPrinted("You are a minor") = 1 <=> age.val < 18

C7_AgeStep ==
    (script = "simple" /\ pc = "check_age") =>
        /\ pc' = "for_header"
        /\ Len(stdout') = Len(stdout) + 1
        /\ Last(stdout') \in {PrintLine("You are an adult"), PrintLine("You are a minor")}

C7_AdultIffAtLeast18 == []C7_AgeMessage /\ [][C7_AgeStep]_vars

\* age 18 has been told "You are an adult" and the counting loop is next
C7_Witness ==
    /\ script = "simple" /\ pc = "for_header" /\ age = PyInt(18)
    /\ Last(stdout) = PrintLine("You are an adult")

\* the lines of the while loop printed so far
CountLines ==
    SelectSeq(Printed, LAMBDA e : e.text \in {"Count: 0", "Count: 1", "Count: 2",
                                               "Count: 3", "Count: 4", "Done!"})

\* C8: the while-counter terminates; from count = 0 it prints "Count: 0",
\* "Count: 1", "Count: 2" in that order, each once, never "Count: 3", then
\* "Done!" as the last output; count stays within 0..3.
C8_Counting ==
    (script = "simple" /\ pc \in {"while", "done"}) =>
        /\ count.val \in 0..3
        /\ TimesPrinted("Count: 3") = 0
        /\ pc = "while" =>
               CountLines = SubSeq(<<PrintLine("Count: 0"), PrintLine("Count: 1"),
                                     PrintLine("Count: 2")>>, 1, count.val)
        /\ pc = "done" =>
               /\ CountLines = <<PrintLine("Count: 0"), PrintLine("Count: 1"),
                                 PrintLine("Count: 2"), PrintLine("Done!")>>
               /\ Last(stdout) = PrintLine("Done!")
               /\ count = PyInt(3)

C8_WhileTerminates ==
    /\ []C8_Counting
    /\ (script = "simple" /\ pc = "while") ~> (script = "simple" /\ pc = "done")

\* the loop has run out and "Done!" is the last line
C8_Witness ==
    /\ script = "simple" /\ pc = "done" /\ count = PyInt(3)
    /\ Last(stdout) = PrintLine("Done!")
    /\ TimesPrinted("Count: 2") = 1

\* C9: for every integer n, zero and negative n included, simple_if_else(n)
\* prints exactly one line, "Even" if n is even and "Odd" otherwise, and
\* returns no value, so printing its result prints None.
C9_EvenOdd ==
    /\ (script = "functions" /\ pc = "done") =>
           /\ Len(stdout) = 4
           /\ stdout[3] = PrintLine(IF \E k \in Args : n.val = k + k THEN "Even" ELSE "Odd")
           /\ retN = None
           /\ stdout[4] = PrintLine("None")
    /\ (script = "if_else" /\ pc = "done") =>
           SubSeq(stdout, 9, 12) = <<PrintLine("Even"), PrintLine("None"),
                                     PrintLine("Odd"), PrintLine("None")>>

\* a negative odd argument printed "Odd" and None
C9_Witness ==
    /\ script = "functions" /\ pc = "done" /\ n = PyInt(-3)
    /\ stdout[3] = PrintLine("Odd") /\ stdout[4] = PrintLine("None")

\* C10: test_if_else is monotone non-decreasing: x <= y implies
\* test_if_else(x) <= test_if_else(y); the result is never negative, and
\* for x > 0 it is strictly greater than x.
C10_Monotone ==
    (script = "functions" /\ pc \in {"third", "done"}) =>
        /\ x.val <= y.val => retX.val <= retY.val
        /\ retX.val >= 0 /\ retY.val >= 0
        /\ x.val > 0 => retX.val > x.val
        /\ y.val > 0 => retY.val > y.val

\* the two arguments straddle the boundary between the small and medium bands
C10_Witness ==
    /\ script = "functions" /\ pc = "third"
    /\ x = PyInt(5) /\ y = PyInt(6) /\ retX.val = 6 /\ retY.val = 11

====
